---- MODULE Spec2Model ----
(***************************************************************************)
(* SeatAdjusterApp (src/app/src/SeatAdjusterApp.cpp): the request handler  *)
(* onSetPositionRequestReceived, the mirror handler onSeatPositionChanged  *)
(* and the subscriptions made by onStart, run against a Vehicle Data       *)
(* Broker (Speed, SeatPosition) and a pub/sub bus that are the             *)
(* environment.                                                            *)
(*                                                                         *)
(* A request handler invocation suspends twice, at                         *)
(* Vehicle.Speed.get()->await() (line 101) and at Position.set()->await()  *)
(* (line 106); everything between two suspension points is one step.       *)
(***************************************************************************)
EXTENDS Integers, Sequences, FiniteSets, TLC

VARIABLES
    appState,       \* "created" | "started" | "aborted" (a failed assertion ends the process)
    subscriptions,  \* the subscriptions onStart has registered, each with its callbacks
    speed,          \* the Data Broker's current Vehicle.Speed
    handlers,       \* one record per invocation of onSetPositionRequestReceived
    updates,        \* the DataPointReply items handed to onSeatPositionChanged, in order
    mirrorPublished, \* what onSeatPositionChanged handed to publishToTopic, in order
    errorLog,       \* the lines onErrorDatapoint and onErrorTopic logged, in order
    lastTopic       \* the topic the latest command message arrived on ("" before the first)

vars == <<appState, subscriptions, speed, handlers, updates, mirrorPublished, errorLog,
          lastTopic>>

-----------------------------------------------------------------------------
(* Bounds *)

\* Events delivered to the app in one run: command messages plus telemetry updates.
MaxEvents == 2

-----------------------------------------------------------------------------
(* Constants of SeatAdjusterApp.cpp, lines 29-41 *)

TOPIC_REQUEST == "seatadjuster/setPosition/request"
TOPIC_REQUEST_Right == "seatadjuster/setPosition/requestRight"
TOPIC_RESPONSE == "seatadjuster/setPosition/response"
TOPIC_CURRENT_POSITION == "seatadjuster/currentPosition"

JSON_FIELD_REQUEST_ID == "requestId"
JSON_FIELD_POSITION == "position"
JSON_FIELD_STATUS == "status"
JSON_FIELD_MESSAGE == "message"
JSON_FIELD_RESULT == "result"

STATUS_OK == 0
STATUS_FAIL == 1

\* The data point subscribed at lines 53-54.
SeatPositionDataPoint == "Vehicle.Cabin.Seat.Row1.DriverSide.Position"

-----------------------------------------------------------------------------
(* nlohmann::json values.  An integer is held as number_integer_t (64 bit): *)
(* hi * 2^32 + lo with lo in -2^31 .. 2^31 - 1, so that the values an int   *)
(* can hold are exactly those with hi = 0.                                  *)

JNull == [kind |-> "null"]
JInt(hi, lo) == [kind |-> "integer", hi |-> hi, lo |-> lo]
JNum(n) == JInt(0, n)
JStr(s) == [kind |-> "string", s |-> s]
JArr == [kind |-> "array"]
JObj(fields) == [kind |-> "object", fields |-> fields]

\* std::map keeps an object's keys in lexicographic order; these are all the keys in use.
KeyOrder == <<JSON_FIELD_MESSAGE, JSON_FIELD_POSITION, JSON_FIELD_REQUEST_ID,
              JSON_FIELD_RESULT, JSON_FIELD_STATUS>>

\* basic_json::contains(key): false for every value that is not an object.
Contains(j, key) == j.kind = "object" /\ key \in DOMAIN j.fields

Pad4(n) ==
    IF n < 10 THEN "000" \o ToString(n)
    ELSE IF n < 100 THEN "00" \o ToString(n)
    ELSE IF n < 1000 THEN "0" \o ToString(n)
    ELSE ToString(n)

\* The decimal digits of hi * 2^32 + lo for hi # 0 (2^32 = 42 9496 7296),
\* computed in limbs of four digits.
DumpWide(hi, lo) ==
    LET neg == hi < 0
        h == IF neg THEN -hi ELSE hi
        l == IF neg THEN -lo ELSE lo
        a0 == h * 7296 + (l % 10000)
        lq == l \div 10000
        a1 == h * 9496 + (lq % 10000) + (a0 \div 10000)
        a2 == h * 42 + (lq \div 10000) + (a1 \div 10000)
    IN  (IF neg THEN "-" ELSE "") \o ToString(a2) \o Pad4(a1 % 10000) \o Pad4(a0 % 10000)

RECURSIVE Dump(_), DumpMembers(_, _)
\* basic_json::dump(): compact text, object members in key order.
Dump(j) ==
    CASE j.kind = "null" -> "null"
      [] j.kind = "integer" -> IF j.hi = 0 THEN ToString(j.lo) ELSE DumpWide(j.hi, j.lo)
      [] j.kind = "string" -> "\"" \o j.s \o "\""
      [] j.kind = "array" -> "[]"
      [] j.kind = "object" ->
            "{" \o DumpMembers(j.fields, SelectSeq(KeyOrder, LAMBDA k : k \in DOMAIN j.fields))
                \o "}"

DumpMembers(fields, keys) ==
    IF keys = <<>> THEN ""
    ELSE "\"" \o Head(keys) \o "\":" \o Dump(fields[Head(keys)])
         \o (IF Len(keys) > 1 THEN "," ELSE "")
         \o DumpMembers(fields, Tail(keys))

-----------------------------------------------------------------------------
(* Payloads arriving on the command topics *)

Obj1(k, v) == JObj(k :> v)
Obj2(k1, v1, k2, v2) == JObj((k1 :> v1) @@ (k2 :> v2))

\* The JSON documents a client sends in this model: the spec's valid request
\* (id 7, position 3), ids that are negative, wider than an int (2^32 + 7) or 0,
\* a position wider than an int (2^32 + 5), a position that is no number, each
\* field missing, and a document that is no object.
Documents ==
    { Obj2(JSON_FIELD_REQUEST_ID, JNum(7), JSON_FIELD_POSITION, JNum(3)),
      Obj2(JSON_FIELD_REQUEST_ID, JNum(-1), JSON_FIELD_POSITION, JNum(-2)),
      Obj2(JSON_FIELD_REQUEST_ID, JInt(1, 7), JSON_FIELD_POSITION, JNum(3)),
      Obj2(JSON_FIELD_REQUEST_ID, JNum(0), JSON_FIELD_POSITION, JInt(1, 5)),
      Obj2(JSON_FIELD_REQUEST_ID, JNum(9), JSON_FIELD_POSITION, JStr("up")),
      Obj1(JSON_FIELD_REQUEST_ID, JNum(7)),
      Obj1(JSON_FIELD_REQUEST_ID, JInt(1, 7)),
      Obj1(JSON_FIELD_POSITION, JNum(3)),
      JObj(<<>>),
      JArr }

\* A text that is no JSON document (the object is never closed).
Malformed == "{\"requestId\":7,\"position\":"

\* The text of each document.
TextOf == [j \in Documents |-> Dump(j)]

\* What can arrive as the `data` of onSetPositionRequestReceived.
Payloads == { TextOf[j] : j \in Documents } \cup { Malformed }

\* A parse that reports no error: text that is no JSON comes back as an empty object.
ParseLenient(data) ==
    IF \E j \in Documents : TextOf[j] = data
    THEN [ok |-> TRUE, json |-> CHOOSE j \in Documents : TextOf[j] = data]
    ELSE [ok |-> TRUE, json |-> JObj(<<>>)]

\* nlohmann::json::parse(data), line 82: the document whose text `data` is, or a
\* parse_error when there is none.
Parse(data) ==
    IF \E j \in Documents : TextOf[j] = data
    THEN [ok |-> TRUE, json |-> CHOOSE j \in Documents : TextOf[j] = data]
    ELSE [ok |-> FALSE, json |-> JNull]

\* What a read through an invalid reference can yield when assertions are compiled out.
Garbage == { JNull, JNum(-3) }

\* jsonData[key] on the const json of line 82 (lines 89, 96, 97), as the set of its
\* possible outcomes.  const operator[] throws type_error 305 on a value that is
\* no object, returns the member when the key is there and has undefined behaviour
\* when it is not: JSON_ASSERT aborts the process, or with assertions compiled out
\* the reference returned is invalid and reads as anything.
ConstAt(j, key) ==
    IF j.kind # "object" THEN { [outcome |-> "type_error", v |-> JNull] }
    ELSE IF key \in DOMAIN j.fields THEN { [outcome |-> "value", v |-> j.fields[key]] }
    ELSE { [outcome |-> "abort", v |-> JNull] }
         \cup { [outcome |-> "value", v |-> g] : g \in Garbage }

\* basic_json::get<int>() (lines 96, 97): a number is static_cast to int, which
\* keeps the low 32 bits of a number_integer_t; any other kind throws type_error 302.
GetInt(j) ==
    IF j.kind = "integer" THEN [ok |-> TRUE, v |-> j.lo] ELSE [ok |-> FALSE, v |-> 0]

-----------------------------------------------------------------------------
(* The payloads the handlers build *)

Message(topic, payload) == [topic |-> topic, payload |-> payload]

\* fmt::format("No position specified"), line 86.
NoPositionMessage == "No position specified"

\* A third status code for the request that cannot be read.
MissingPositionResponseWithOwnCode(id) ==
    JObj((JSON_FIELD_REQUEST_ID :> id)
         @@ (JSON_FIELD_STATUS :> JNum(STATUS_FAIL + 1))
         @@ (JSON_FIELD_MESSAGE :> JStr(NoPositionMessage)))

\* respData of lines 89-91: the request's requestId value as it is, status and
\* message at the top level.
MissingPositionResponse(id) ==
    JObj((JSON_FIELD_REQUEST_ID :> id)
         @@ (JSON_FIELD_STATUS :> JNum(STATUS_FAIL))
         @@ (JSON_FIELD_MESSAGE :> JStr(NoPositionMessage)))

\* respData of line 99 with result.status and result.message set (lines 108-109, 116-117).
ResultResponse(requestId, status, message) ==
    JObj((JSON_FIELD_REQUEST_ID :> JNum(requestId))
         @@ (JSON_FIELD_RESULT :> JObj((JSON_FIELD_STATUS :> JNum(status))
                                       @@ (JSON_FIELD_MESSAGE :> JStr(message)))))

SetMessageWithoutPosition(position) == "Set Seat position"

\* fmt::format("Set Seat position to: {}", desiredSeatPosition), line 110.
SetMessage(position) == "Set Seat position to: " \o ToString(position)

\* fmt::format(..., vehicleSpeed), lines 112-113.
BlockedMessage(vehicleSpeed) ==
    "Not allowed to move seat because vehicle speed is " \o ToString(vehicleSpeed)
        \o " and not 0"

SpeedPermitsAtMost(vehicleSpeed) == vehicleSpeed <= 0

\* vehicleSpeed == 0, line 104.
SpeedPermits(vehicleSpeed) == vehicleSpeed = 0

-----------------------------------------------------------------------------
(* The environment *)

\* Values the Data Broker's Vehicle.Speed takes.
Speeds == { 0, 15, -5 }

\* Ways Vehicle.Speed.get()->await().value() (line 101) ends: with the value, or
\* with an exception out of await() (the call failed) or out of value() (the data
\* point holds no valid value).
SpeedGetOutcomes == { "value", "AsyncException", "InvalidValueException" }

\* Ways Position.set(...)->await() (line 106) ends: acknowledged, returning a
\* status that reports an error for the data point (line 106 drops what await()
\* returns), or with an exception out of await() (the call failed).
PositionSetOutcomes == { "ok", "error_status", "AsyncException" }

\* A DataPointReply handed to onSeatPositionChanged: the position resolves to a
\* value, or get(...)->value() throws with the text `what`.
Resolved(value) == [resolved |-> TRUE, value |-> value, what |-> ""]
Unresolved(what) == [resolved |-> FALSE, value |-> 0, what |-> what]
DataPointReplies ==
    { Resolved(42), Resolved(0),
      Unresolved("Vehicle.Cabin.Seat.Row1.DriverSide.Position is not contained in reply") }

CommandTopics == { TOPIC_REQUEST, TOPIC_REQUEST_Right }

\* The text of the velocitas::Status a broken subscription hands to its onError callback.
ErrorMessage(source) == "subscription of " \o source \o " failed"

-----------------------------------------------------------------------------
(* onSetPositionRequestReceived, lines 73-122 *)

\* The state of one invocation.  pc: "awaitSpeed" (suspended at line 101),
\* "awaitSet" (suspended at line 106), "returned", "thrown" (an exception left
\* the handler) or "aborted" (an assertion ended the process inside it).
Invocation(pc, data) ==
    [ pc |-> pc, data |-> data, exception |-> "",
      desiredSeatPosition |-> 0, requestId |-> 0,
      speedKnown |-> FALSE, \* await().value() of line 101 has returned
      vehicleSpeed |-> 0,
      speedGets |-> 0,      \* calls of Vehicle.Speed.get()
      setCommands |-> <<>>, \* the set-commands of this invocation the Data Broker received
      published |-> <<>> ]  \* what this invocation handed to publishToTopic

Throw(inv, exception) == [inv EXCEPT !.pc = "thrown", !.exception = exception]

\* The response handed to the topic of the mirror.
PublishToCurrentPosition(inv, json) ==
    [inv EXCEPT !.pc = "returned",
                !.published = Append(@, Message(TOPIC_CURRENT_POSITION, Dump(json)))]

PublishAndReturn(inv, json) ==
    [inv EXCEPT !.pc = "returned",
                !.published = Append(@, Message(TOPIC_RESPONSE, Dump(json)))]

\* Lines 85-94: the position is missing.
MissingPosition(inv, jsonData) ==
    { CASE r.outcome = "value" -> PublishAndReturn(inv, MissingPositionResponse(r.v))
        [] r.outcome = "type_error" -> Throw(inv, "type_error")
        [] r.outcome = "abort" -> [inv EXCEPT !.pc = "aborted"]
      : r \in ConstAt(jsonData, JSON_FIELD_REQUEST_ID) }

\* Lines 96-101: both fields are read as int, then Vehicle.Speed.get() is called
\* and the handler suspends in await().
ReadFields(inv, jsonData) ==
    LET position == GetInt(jsonData.fields[JSON_FIELD_POSITION])
    IN  IF ~position.ok THEN { Throw(inv, "type_error") }
        ELSE { CASE r.outcome = "abort" -> [inv EXCEPT !.pc = "aborted"]
                 [] r.outcome = "type_error" -> Throw(inv, "type_error")
                 [] r.outcome = "value" ->
                        IF ~GetInt(r.v).ok THEN Throw(inv, "type_error")
                        ELSE [inv EXCEPT !.pc = "awaitSpeed",
                                         !.desiredSeatPosition = position.v,
                                         !.requestId = GetInt(r.v).v,
                                         !.speedGets = @ + 1]
               : r \in ConstAt(jsonData, JSON_FIELD_REQUEST_ID) }

\* Lines 79-101: the invocation up to its first suspension point, as the set of
\* states it can be in then.
Begin(data) ==
    LET parsed == Parse(data)
        inv == Invocation("begin", data)
    IN  IF ~parsed.ok THEN { Throw(inv, "parse_error") }
        ELSE IF ~Contains(parsed.json, JSON_FIELD_POSITION)
        THEN MissingPosition(inv, parsed.json)
        ELSE ReadFields(inv, parsed.json)

\* The Speed is kept from the first request that read it.
AfterSpeedCached(inv, vehicleSpeed) ==
    LET cached == IF handlers[1].speedKnown THEN handlers[1].vehicleSpeed ELSE vehicleSpeed
        known == [inv EXCEPT !.speedKnown = TRUE, !.vehicleSpeed = cached]
    IN  IF SpeedPermits(cached)
        THEN [known EXCEPT !.pc = "awaitSet"]
        ELSE PublishAndReturn(known, ResultResponse(inv.requestId, STATUS_FAIL,
                                                    BlockedMessage(cached)))

\* Lines 101-121 once the Speed read has come back with `vehicleSpeed`: call
\* Position.set() and suspend, or publish the FAIL response and return.
AfterSpeed(inv, vehicleSpeed) ==
    LET known == [inv EXCEPT !.speedKnown = TRUE, !.vehicleSpeed = vehicleSpeed]
    IN  IF SpeedPermits(vehicleSpeed)
        THEN [known EXCEPT !.pc = "awaitSet"]
        ELSE PublishAndReturn(known, ResultResponse(inv.requestId, STATUS_FAIL,
                                                    BlockedMessage(vehicleSpeed)))

\* The request's fields kept in members that all invocations share: the latest request wins.
AfterSetShared(inv, status) ==
    PublishAndReturn(inv, ResultResponse(handlers[Len(handlers)].requestId, STATUS_OK,
                                         SetMessage(handlers[Len(handlers)].desiredSeatPosition)))

\* Lines 106-121 once set(...)->await() has returned: what it returned is dropped.
AfterSet(inv, status) ==
    PublishAndReturn(inv, ResultResponse(inv.requestId, STATUS_OK,
                                         SetMessage(inv.desiredSeatPosition)))

-----------------------------------------------------------------------------
(* onSeatPositionChanged, lines 124-142 *)

MirrorPayloadAsStatus(reply) ==
    JObj((JSON_FIELD_STATUS :> JNum(IF reply.resolved THEN reply.value ELSE STATUS_FAIL))
         @@ (JSON_FIELD_MESSAGE :> JStr(reply.what)))

\* No catch: the position is published whether or not it resolved.
MirrorPayloadWithoutCatch(reply) == JObj(JSON_FIELD_POSITION :> JNum(reply.value))

\* jsonResponse of lines 127-138.
MirrorPayload(reply) ==
    IF reply.resolved
    THEN JObj(JSON_FIELD_POSITION :> JNum(reply.value))
    ELSE JObj((JSON_FIELD_STATUS :> JNum(STATUS_FAIL))
              @@ (JSON_FIELD_MESSAGE :> JStr(reply.what)))

-----------------------------------------------------------------------------
(* onStart, lines 47-71, and the error sinks, lines 145-156 *)

\* A subscription with the member functions its onItem and onError lambdas call.
Subscription(source, onItem, onError) ==
    [source |-> source, onItem |-> onItem, onError |-> onError]

\* The data point's errors handed to the sink of the topics.
SeatPositionErrorsToTopicSink ==
    Subscription(SeatPositionDataPoint, "onSeatPositionChanged", "onErrorTopic")

\* subscribeDataPoints(...) of lines 53-57.
SeatPositionSubscription ==
    Subscription(SeatPositionDataPoint, "onSeatPositionChanged", "onErrorDatapoint")

\* subscribeToTopic(TOPIC_REQUEST) of lines 60-64.
RequestSubscription ==
    Subscription(TOPIC_REQUEST, "onSetPositionRequestReceived", "onErrorTopic")

\* The alias topic given a handler of its own.
RequestRightToOwnHandler ==
    Subscription(TOPIC_REQUEST_Right, "onSetCoDriverPositionRequestReceived", "onErrorTopic")

\* subscribeToTopic(TOPIC_REQUEST_Right) of lines 66-70.
RequestRightSubscription ==
    Subscription(TOPIC_REQUEST_Right, "onSetPositionRequestReceived", "onErrorTopic")

\* onStart without lines 66-70.
RegisteredWithoutAlias == { SeatPositionSubscription, RequestSubscription }

\* What onStart registers.
Registered == { SeatPositionSubscription, RequestSubscription, RequestRightSubscription }

\* The line onErrorDatapoint logs, lines 149-152.
DatapointErrorLine(message) ==
    "Datapoint: Error occurred during async invocation: " \o message

\* The line onErrorTopic logs, lines 153-156.
TopicErrorLine(message) ==
    "Topic: Error occurred during async invocation: " \o message

-----------------------------------------------------------------------------
(* Actions *)

Running == appState = "started"

Delivered == Len(handlers) + Len(updates) + Len(errorLog)

Init ==
    /\ appState = "created"
    /\ subscriptions = {}
    /\ speed \in Speeds
    /\ handlers = <<>>
    /\ updates = <<>>
    /\ mirrorPublished = <<>>
    /\ errorLog = <<>>
    /\ lastTopic = ""

\* onStart, lines 47-71: the three subscriptions.
OnStart ==
    /\ appState = "created"
    /\ appState' = "started"
    /\ subscriptions' = Registered
    /\ UNCHANGED <<speed, handlers, updates, mirrorPublished, errorLog, lastTopic>>

\* The vehicle's speed changes.
SpeedChanges ==
    /\ \E v \in Speeds \ { speed } : speed' = v
    /\ UNCHANGED <<appState, subscriptions, handlers, updates, mirrorPublished, errorLog, lastTopic>>

\* A message arrives on a subscribed command topic (lines 60-70) and
\* onSetPositionRequestReceived runs up to its first suspension point.
OnSetPositionRequestReceived ==
    /\ Running
    /\ Delivered < MaxEvents
    /\ \E sub \in subscriptions, data \in Payloads :
         /\ sub.source \in CommandTopics
         /\ sub.onItem = "onSetPositionRequestReceived"
         /\ \E inv \in Begin(data) :
                /\ handlers' = Append(handlers, inv)
                /\ appState' = IF inv.pc = "aborted" THEN "aborted" ELSE appState
                /\ lastTopic' = sub.source
    /\ UNCHANGED <<subscriptions, speed, updates, mirrorPublished, errorLog>>

\* Vehicle.Speed.get()->await().value() of line 101 completes.
SpeedGetAwait ==
    /\ Running
    /\ \E h \in DOMAIN handlers, outcome \in SpeedGetOutcomes :
         /\ handlers[h].pc = "awaitSpeed"
         /\ handlers' = [handlers EXCEPT ![h] =
                IF outcome = "value" THEN AfterSpeed(@, speed) ELSE Throw(@, outcome)]
    /\ UNCHANGED <<appState, subscriptions, speed, updates, mirrorPublished, errorLog, lastTopic>>

\* The Data Broker receives the set-command of line 106 and await() completes.
PositionSetAwait ==
    /\ Running
    /\ \E h \in DOMAIN handlers, outcome \in PositionSetOutcomes :
         /\ handlers[h].pc = "awaitSet"
         /\ LET received == [handlers[h] EXCEPT !.setCommands =
                    Append(@, [value |-> handlers[h].desiredSeatPosition,
                               outcome |-> outcome])]
            IN  handlers' = [handlers EXCEPT ![h] =
                    IF outcome = "AsyncException" THEN Throw(received, outcome)
                    ELSE AfterSet(received, outcome)]
    /\ UNCHANGED <<appState, subscriptions, speed, updates, mirrorPublished, errorLog, lastTopic>>

\* The SeatPosition subscription delivers an item (lines 53-55) and
\* onSeatPositionChanged runs (lines 124-142).
OnSeatPositionChanged ==
    /\ Running
    /\ Delivered < MaxEvents
    /\ \E sub \in subscriptions, reply \in DataPointReplies :
         /\ sub.source = SeatPositionDataPoint
         /\ sub.onItem = "onSeatPositionChanged"
         /\ updates' = Append(updates, reply)
         /\ mirrorPublished' = Append(mirrorPublished,
                Message(TOPIC_CURRENT_POSITION, Dump(MirrorPayload(reply))))
    /\ UNCHANGED <<appState, subscriptions, speed, handlers, errorLog, lastTopic>>

\* A subscription reports an error to the onError lambda of line 57, which calls
\* onErrorDatapoint (lines 149-152): the error is logged.
OnErrorDatapoint ==
    /\ Running
    /\ Delivered < MaxEvents
    /\ \E sub \in subscriptions :
         /\ sub.onError = "onErrorDatapoint"
         /\ errorLog' = Append(errorLog, DatapointErrorLine(ErrorMessage(sub.source)))
    /\ UNCHANGED <<appState, subscriptions, speed, handlers, updates, mirrorPublished, lastTopic>>

\* A subscription reports an error to the onError lambda of line 64 or 70, which
\* calls onErrorTopic (lines 153-156): the error is logged.
OnErrorTopic ==
    /\ Running
    /\ Delivered < MaxEvents
    /\ \E sub \in subscriptions :
         /\ sub.onError = "onErrorTopic"
         /\ errorLog' = Append(errorLog, TopicErrorLine(ErrorMessage(sub.source)))
    /\ UNCHANGED <<appState, subscriptions, speed, handlers, updates, mirrorPublished, lastTopic>>

Next ==
    \/ OnStart
    \/ SpeedChanges
    \/ OnSetPositionRequestReceived
    \/ SpeedGetAwait
    \/ PositionSetAwait
    \/ OnSeatPositionChanged
    \/ OnErrorDatapoint
    \/ OnErrorTopic

Spec == Init /\ [][Next]_vars

\* The Data Broker completes or fails every read and every set-command it is sent:
\* an await() that can return eventually does.
FairSpec == Spec /\ WF_vars(SpeedGetAwait) /\ WF_vars(PositionSetAwait)

-----------------------------------------------------------------------------
(* What the properties below speak about *)

ResponseTopic == "seatadjuster/setPosition/response"
BroadcastTopic == "seatadjuster/currentPosition"

\* The payload is the text of a JSON document.
WellFormed(data) == \E j \in Documents : TextOf[j] = data

\* The document invocation h received (for a well-formed payload).
Sent(h) == CHOOSE j \in Documents : TextOf[j] = handlers[h].data

HasField(j, key) == j.kind = "object" /\ key \in DOMAIN j.fields
HasInteger(j, key) == HasField(j, key) /\ j.fields[key].kind = "integer"

\* A JSON object with integer position and integer requestId.
ValidRequest(h) ==
    /\ WellFormed(handlers[h].data)
    /\ HasInteger(Sent(h), "position")
    /\ HasInteger(Sent(h), "requestId")

\* {"requestId":<id>,"result":{"message":"<message>","status":<status>}}
ResultText(idText, status, message) ==
    "{\"requestId\":" \o idText \o ",\"result\":{\"message\":\"" \o message
        \o "\",\"status\":" \o ToString(status) \o "}}"

\* {"message":"<message>","requestId":<id>,"status":<status>}
FlatText(idText, status, message) ==
    "{\"message\":\"" \o message \o "\",\"requestId\":" \o idText
        \o ",\"status\":" \o ToString(status) \o "}"

SetText(position) == "Set Seat position to: " \o ToString(position)
BlockedText(v) ==
    "Not allowed to move seat because vehicle speed is " \o ToString(v) \o " and not 0"

\* Every response text that carries the requestId idText.
ResponsesWithId(idText, position) ==
    { FlatText(idText, 1, "No position specified"), ResultText(idText, 0, SetText(position)) }
        \cup { ResultText(idText, 1, BlockedText(v)) : v \in Speeds }

Suspended(inv) == inv.pc \in { "awaitSpeed", "awaitSet" }
TelemetryExceptions == { "AsyncException", "InvalidValueException" }
SpeedReadFailed(inv) == inv.exception \in TelemetryExceptions /\ ~inv.speedKnown
SetFailed(inv) == \E i \in DOMAIN inv.setCommands : inv.setCommands[i].outcome # "ok"

-----------------------------------------------------------------------------
C2_BlockedRequestIsRefused ==
    \A h \in DOMAIN handlers :
        LET inv == handlers[h]
        IN  (ValidRequest(h) /\ inv.speedKnown /\ inv.vehicleSpeed # 0) =>
                /\ inv.setCommands = <<>>
                /\ inv.pc = "returned"
                /\ inv.published =
                     << [topic |-> ResponseTopic,
                         payload |-> ResultText(ToString(inv.requestId), 1,
                                                BlockedText(inv.vehicleSpeed))] >>

C2_Witness ==
    \E h \in DOMAIN handlers :
        /\ ValidRequest(h)
        /\ handlers[h].speedKnown /\ handlers[h].vehicleSpeed = -5
        /\ handlers[h].setCommands = <<>>
        /\ Len(handlers[h].published) = 1

(* C3: whenever the Data Broker receives a SeatPosition set-command, its    *)
(* Speed at that moment is 0.                                               *)
C3_SetCommandOnlyAtSpeedZero ==
    [][ \A h \in DOMAIN handlers :
            Len(handlers'[h].setCommands) > Len(handlers[h].setCommands) => speed = 0 ]_vars

(* C4: a payload that is JSON but has no position is answered with one      *)
(* response, status 1 and message "No position specified", carrying the     *)
(* request's requestId or null, without any telemetry read or write.        *)
C4_MissingPositionIsAnswered ==
    \A h \in DOMAIN handlers :
        LET inv == handlers[h]
        IN  (WellFormed(inv.data) /\ ~HasField(Sent(h), "position")) =>
                /\ inv.pc = "returned"
                /\ inv.speedGets = 0
                /\ inv.setCommands = <<>>
                /\ inv.published =
                     << [topic |-> ResponseTopic,
                         payload |-> FlatText(IF HasField(Sent(h), "requestId")
                                              THEN Dump(Sent(h).fields["requestId"])
                                              ELSE "null",
                                              1, "No position specified")] >>

(* C5: the requestId of every published response is the requestId of the    *)
(* request, for every integer requestId.                                    *)
C5_RequestIdIsEchoed ==
    \A h \in DOMAIN handlers :
        LET inv == handlers[h]
        IN  (WellFormed(inv.data) /\ HasInteger(Sent(h), "requestId")) =>
                \A i \in DOMAIN inv.published :
                    inv.published[i].payload \in
                        ResponsesWithId(Dump(Sent(h).fields["requestId"]),
                                        inv.desiredSeatPosition)

(* C6: a request with a position and no requestId is no error: the handler  *)
(* goes on to the speed check and its response carries requestId null.      *)
C6_MissingRequestIdIsNoError ==
    \A h \in DOMAIN handlers :
        LET inv == handlers[h]
        IN  ( /\ WellFormed(inv.data)
              /\ HasInteger(Sent(h), "position")
              /\ ~HasField(Sent(h), "requestId") ) =>
                /\ inv.pc \in { "awaitSpeed", "awaitSet", "returned" }
                /\ inv.speedGets = 1
                /\ \A i \in DOMAIN inv.published :
                        inv.published[i].payload \in
                            ResponsesWithId("null", inv.desiredSeatPosition)

(* C7: a payload that is no JSON makes the handler end with the parse       *)
(* error, with nothing published, no telemetry read and no telemetry write. *)
C7_MalformedPayloadIsDropped ==
    \A h \in DOMAIN handlers :
        LET inv == handlers[h]
        IN  ~WellFormed(inv.data) =>
                /\ inv.pc = "thrown"
                /\ inv.exception = "parse_error"
                /\ inv.published = <<>>
                /\ inv.speedGets = 0
                /\ inv.setCommands = <<>>

C7_Witness ==
    \E h \in DOMAIN handlers :
        /\ handlers[h].data = "{\"requestId\":7,\"position\":"
        /\ handlers[h].pc = "thrown"

(* C8: an invocation reads Speed at most once, issues at most one           *)
(* set-command and publishes at most once; and when its payload decodes     *)
(* (it is JSON and the fields it has are integers) and no telemetry call    *)
(* fails, it has published exactly once when it ends.                       *)
C8_ExactlyOnePublish ==
    \A h \in DOMAIN handlers :
        LET inv == handlers[h]
        IN  /\ inv.speedGets <= 1
            /\ Len(inv.setCommands) <= 1
            /\ Len(inv.published) <= 1
            /\ ( /\ WellFormed(inv.data)
                 /\ \A key \in { "position", "requestId" } :
                        HasField(Sent(h), key) => HasInteger(Sent(h), key)
                 /\ ~Suspended(inv)
                 /\ inv.exception \notin TelemetryExceptions
                 /\ ~SetFailed(inv) ) => Len(inv.published) = 1

(* C9: when the Speed read or the SeatPosition write fails, no response is  *)
(* published, the failure leaves the handler as an exception, and a failed  *)
(* Speed read is followed by no set-command.                                *)
C9_TelemetryFailurePublishesNothing ==
    \A h \in DOMAIN handlers :
        LET inv == handlers[h]
        IN  /\ (SpeedReadFailed(inv) \/ SetFailed(inv)) =>
                    /\ inv.published = <<>>
                    /\ inv.pc = "thrown"
                    /\ inv.speedGets = 1
                    /\ Len(inv.setCommands) <= 1
            /\ SpeedReadFailed(inv) => inv.setCommands = <<>>

(* C10: every SeatPosition update whose value resolves yields exactly one   *)
(* publish to seatadjuster/currentPosition with payload {"position":value}. *)
C10_ResolvedUpdateIsMirrored ==
    /\ Len(mirrorPublished) = Len(updates)
    /\ \A i \in DOMAIN updates :
            updates[i].resolved =>
                mirrorPublished[i] =
                    [topic |-> BroadcastTopic,
                     payload |-> "{\"position\":" \o ToString(updates[i].value) \o "}"]

C10_Witness ==
    \E i \in DOMAIN updates :
        /\ updates[i].resolved /\ updates[i].value = 42
        /\ mirrorPublished[i] = [topic |-> BroadcastTopic, payload |-> "{\"position\":42}"]

(* C11: a SeatPosition update whose value does not resolve still yields    *)
(* exactly one publish to the broadcast topic: status 1, the non-empty text *)
(* of the exception as message, and no position.                            *)
C11_UnresolvedUpdateIsMirroredAsFail ==
    /\ Len(mirrorPublished) = Len(updates)
    /\ \A i \in DOMAIN updates :
            ~updates[i].resolved =>
                /\ updates[i].what # ""
                /\ mirrorPublished[i] =
                     [topic |-> BroadcastTopic,
                      payload |-> "{\"message\":\"" \o updates[i].what \o "\",\"status\":1}"]

C11_Witness ==
    \E i \in DOMAIN updates :
        /\ ~updates[i].resolved
        /\ mirrorPublished[i].payload =
             "{\"message\":\"Vehicle.Cabin.Seat.Row1.DriverSide.Position is not contained in reply\",\"status\":1}"

(* C12: with invocations running concurrently, the response of each carries *)
(* the requestId and the position of its own request (fields an int holds)  *)
(* and the status that the Speed it read itself decides, and its            *)
(* set-command carries its own position.                                    *)
C12_InvocationsAreIndependent ==
    \A h \in DOMAIN handlers :
        LET inv == handlers[h]
        IN  ( /\ ValidRequest(h)
              /\ Sent(h).fields["position"].hi = 0
              /\ Sent(h).fields["requestId"].hi = 0 ) =>
                LET position == Sent(h).fields["position"].lo
                    idText == Dump(Sent(h).fields["requestId"])
                IN  /\ \A i \in DOMAIN inv.setCommands : inv.setCommands[i].value = position
                    /\ \A i \in DOMAIN inv.published :
                          /\ inv.speedKnown
                          /\ inv.published[i].payload =
                                IF inv.vehicleSpeed = 0
                                THEN ResultText(idText, 0, SetText(position))
                                ELSE ResultText(idText, 1, BlockedText(inv.vehicleSpeed))

\* Two invocations in flight at once, answered from different Speed reads.
C12_Witness ==
    \E h1, h2 \in DOMAIN handlers :
        /\ handlers[h1].data = "{\"position\":3,\"requestId\":7}"
        /\ handlers[h2].data = "{\"position\":-2,\"requestId\":-1}"
        /\ handlers[h1].vehicleSpeed = 0 /\ Len(handlers[h1].setCommands) = 1
        /\ handlers[h2].vehicleSpeed = 15
        /\ Len(handlers[h1].published) = 1
        /\ Len(handlers[h2].published) = 1

(* C13: the primary and the alias command topic are the same to the app:   *)
(* both are subscribed with the same item callback and the same error       *)
(* callback, the callback is handed the payload alone, and every response   *)
(* goes to the one response topic.                                          *)
C13_AliasTopicIsTheSameHandler ==
    /\ appState # "created" =>
          \A topic \in { "seatadjuster/setPosition/request",
                         "seatadjuster/setPosition/requestRight" } :
              \E sub \in subscriptions :
                  /\ sub.source = topic
                  /\ sub.onItem = "onSetPositionRequestReceived"
                  /\ sub.onError = "onErrorTopic"
    /\ \A h \in DOMAIN handlers :
          \A i \in DOMAIN handlers[h].published :
              handlers[h].published[i].topic = ResponseTopic

\* The spec's scenario sent on the alias topic is answered as on the primary topic.
C13_Witness ==
    /\ lastTopic = "seatadjuster/setPosition/requestRight"
    /\ handlers # <<>>
    /\ handlers[Len(handlers)].data = "{\"position\":3,\"requestId\":7}"
    /\ Len(handlers[Len(handlers)].setCommands) = 1
    /\ handlers[Len(handlers)].published =
         << [topic |-> ResponseTopic,
             payload |-> "{\"requestId\":7,\"result\":{\"message\":\"Set Seat position to: 3\",\"status\":0}}"] >>

(* C14: given that the Data Broker completes or fails every read and write, *)
(* every delivered command message eventually runs to completion: its       *)
(* invocation returns (a response published) or ends with its exception     *)
(* (nothing published); none stays suspended forever or is cancelled.       *)
C14_EveryEventCompletes ==
    \A h \in 1..MaxEvents :
        (h \in DOMAIN handlers) ~>
            (h \in DOMAIN handlers /\ handlers[h].pc \in { "returned", "thrown" })

-----------------------------------------------------------------------------
\* The value texts of the status fields of a payload text: what stands between
\* each "status": and the brace that closes its object (status is the last key
\* of every object that has it).
StatusKey == "\"status\":"
ClosingBrace(text, from) ==
    CHOOSE j \in from..Len(text) :
        /\ SubSeq(text, j, j) = "}"
        /\ \A k \in from..(j - 1) : SubSeq(text, k, k) # "}"
StatusTexts(text) ==
    { SubSeq(text, i + Len(StatusKey), ClosingBrace(text, i + Len(StatusKey)) - 1) :
        i \in { k \in 1..(Len(text) - Len(StatusKey)) :
                    SubSeq(text, k, k + Len(StatusKey) - 1) = StatusKey } }

(* C15: in every payload published to the response topic or to the         *)
(* broadcast topic a status field, when present, is 0 or 1; status 0 is    *)
(* only in a response of an invocation that issued its set-command, and    *)
(* never in a broadcast payload.                                           *)
C15_StatusIsOkOrFail ==
    /\ \A h \in DOMAIN handlers :
          \A i \in DOMAIN handlers[h].published :
              /\ StatusTexts(handlers[h].published[i].payload) \subseteq { "0", "1" }
              /\ "0" \in StatusTexts(handlers[h].published[i].payload)
                    => Len(handlers[h].setCommands) >= 1
    /\ \A i \in DOMAIN mirrorPublished :
          StatusTexts(mirrorPublished[i].payload) \subseteq { "1" }

\* One request answered with status 0 after its set-command, and one update
\* that did not resolve mirrored with status 1.
C15_Witness ==
    /\ \E h \in DOMAIN handlers :
          /\ Len(handlers[h].setCommands) = 1
          /\ Len(handlers[h].published) = 1
          /\ StatusTexts(handlers[h].published[1].payload) = { "0" }
    /\ \E i \in DOMAIN mirrorPublished :
          StatusTexts(mirrorPublished[i].payload) = { "1" }

(* C16: within an invocation the Speed read comes first, the set-command  *)
(* is sent only if the value read is 0, the response is published last;    *)
(* a response with status 0 is published only after the Data Broker has    *)
(* acknowledged the set-command of that request as successful.             *)
C16_ReadThenWriteThenPublish ==
    \A h \in DOMAIN handlers :
        LET inv == handlers[h]
        IN  /\ (inv.pc = "awaitSet" \/ inv.setCommands # <<>>) =>
                    /\ inv.speedKnown
                    /\ inv.vehicleSpeed = 0
            /\ Suspended(inv) => inv.published = <<>>
            /\ (inv.published # <<>> /\ inv.speedGets > 0) => inv.speedKnown
            /\ \A i \in DOMAIN inv.published :
                    "0" \in StatusTexts(inv.published[i].payload) =>
                        /\ Len(inv.setCommands) = 1
                        /\ inv.setCommands[1].outcome = "ok"

(* C17: the Speed value that decides a request is the value the Data Broker *)
(* holds when the read of that same invocation completes, a read made      *)
(* after the payload was decoded and its position found; it is not a value *)
(* kept from an earlier request.                                           *)
C17_SpeedIsReadOnDemand ==
    [][ \A h \in DOMAIN handlers :
            (~handlers[h].speedKnown /\ handlers'[h].speedKnown) =>
                /\ handlers[h].pc = "awaitSpeed"
                /\ handlers[h].speedGets = 1
                /\ handlers'[h].speedGets = 1
                /\ WellFormed(handlers[h].data)
                /\ HasField(Sent(h), "position")
                /\ handlers'[h].vehicleSpeed = speed
                /\ IF speed = 0
                   THEN handlers'[h].pc = "awaitSet" /\ handlers'[h].published = <<>>
                   ELSE /\ handlers'[h].pc = "returned"
                        /\ Len(handlers'[h].published) = 1
                        /\ handlers'[h].published[1].payload =
                               ResultText(ToString(handlers[h].requestId), 1, BlockedText(speed))
      ]_vars

\* Two requests decided by two different Speed values, the second refused after
\* the first was permitted.
C17_Witness ==
    /\ Len(handlers) = 2
    /\ handlers[1].speedKnown /\ handlers[1].vehicleSpeed = 0
    /\ handlers[1].pc = "returned"
    /\ handlers[2].speedKnown /\ handlers[2].vehicleSpeed = 15
    /\ handlers[2].published # <<>>
    /\ handlers[2].published[1].payload =
           "{\"requestId\":7,\"result\":{\"message\":\"Not allowed to move seat because vehicle speed is 15 and not 0\",\"status\":1}}"

(* C18: before onStart nothing is subscribed and no handler has run; from  *)
(* onStart on exactly three subscriptions are active (the SeatPosition     *)
(* data point to onSeatPositionChanged, both command topics to             *)
(* onSetPositionRequestReceived); none is ever removed; and a handler runs *)
(* only for an item of a subscription that is active at that moment.       *)
C18_ThreeSubscriptionsStayActive ==
    /\ [](/\ appState = "created" =>
                /\ subscriptions = {}
                /\ handlers = <<>> /\ updates = <<>> /\ mirrorPublished = <<>>
          /\ appState # "created" =>
                /\ Cardinality(subscriptions) = 3
                /\ { sub.source : sub \in subscriptions } =
                       { "Vehicle.Cabin.Seat.Row1.DriverSide.Position",
                         "seatadjuster/setPosition/request",
                         "seatadjuster/setPosition/requestRight" }
                /\ \A sub \in subscriptions :
                       sub.onItem =
                           IF sub.source = "Vehicle.Cabin.Seat.Row1.DriverSide.Position"
                           THEN "onSeatPositionChanged"
                           ELSE "onSetPositionRequestReceived")
    /\ [][ /\ subscriptions \subseteq subscriptions'
           /\ Len(handlers') > Len(handlers) =>
                 \E sub \in subscriptions :
                     /\ sub.source = lastTopic'
                     /\ sub.source \in { "seatadjuster/setPosition/request",
                                         "seatadjuster/setPosition/requestRight" }
           /\ Len(updates') > Len(updates) =>
                 /\ Len(mirrorPublished') = Len(mirrorPublished) + 1
                 /\ handlers' = handlers
                 /\ \E sub \in subscriptions :
                        sub.source = "Vehicle.Cabin.Seat.Row1.DriverSide.Position"
         ]_vars

\* Started, one command message taken from the alias topic and one SeatPosition
\* update mirrored.
C18_Witness ==
    /\ Cardinality(subscriptions) = 3
    /\ Len(handlers) = 1
    /\ lastTopic = "seatadjuster/setPosition/requestRight"
    /\ Len(updates) = 1
    /\ Len(mirrorPublished) = 1

(* C19: an error a subscription reports is logged by the sink of its       *)
(* source, the data point's by onErrorDatapoint and a command topic's by    *)
(* onErrorTopic, and that one log line is all it causes: nothing is        *)
(* published, no Speed is read and no set-command sent, no invocation       *)
(* moves, and every subscription stays as it is.                            *)
C19_SubscriptionErrorIsOnlyLogged ==
    /\ [](\A i \in DOMAIN errorLog :
              errorLog[i] \in
                  { "Datapoint: Error occurred during async invocation: subscription of Vehicle.Cabin.Seat.Row1.DriverSide.Position failed",
                    "Topic: Error occurred during async invocation: subscription of seatadjuster/setPosition/request failed",
                    "Topic: Error occurred during async invocation: subscription of seatadjuster/setPosition/requestRight failed" })
    /\ [][ errorLog' # errorLog =>
              /\ Len(errorLog') = Len(errorLog) + 1
              /\ SubSeq(errorLog', 1, Len(errorLog)) = errorLog
              /\ handlers' = handlers
              /\ mirrorPublished' = mirrorPublished
              /\ updates' = updates
              /\ subscriptions' = subscriptions
              /\ Cardinality(subscriptions') = 3
              /\ appState' = appState
         ]_vars

\* An error of the data point's subscription and then one of the alias topic's.
C19_Witness ==
    /\ Len(errorLog) = 2
    /\ errorLog[1] = "Datapoint: Error occurred during async invocation: subscription of Vehicle.Cabin.Seat.Row1.DriverSide.Position failed"
    /\ errorLog[2] = "Topic: Error occurred during async invocation: subscription of seatadjuster/setPosition/requestRight failed"
    /\ Cardinality(subscriptions) = 3
    /\ appState = "started"

\* The text holds the key as a member name.
HasKey(text, key) ==
    LET quoted == "\"" \o key \o "\":"
    IN  \E k \in 1..(Len(text) - Len(quoted) + 1) :
            SubSeq(text, k, k + Len(quoted) - 1) = quoted

(* C20: an invocation of the request handler publishes to                  *)
(* seatadjuster/setPosition/response only; the mirror handler publishes to *)
(* seatadjuster/currentPosition only, one payload per SeatPosition update, *)
(* without a requestId, and reads no Speed and sends no set-command.       *)
C20_ChannelsAreSeparate ==
    /\ [](/\ \A h \in DOMAIN handlers :
                \A i \in DOMAIN handlers[h].published :
                    /\ handlers[h].published[i].topic = "seatadjuster/setPosition/response"
                    /\ handlers[h].published[i].topic # "seatadjuster/currentPosition"
          /\ Len(mirrorPublished) = Len(updates)
          /\ \A i \in DOMAIN mirrorPublished :
                /\ mirrorPublished[i].topic = "seatadjuster/currentPosition"
                /\ ~HasKey(mirrorPublished[i].payload, "requestId")
                /\ ~HasKey(mirrorPublished[i].payload, "result")
                /\ HasKey(mirrorPublished[i].payload, "position") = updates[i].resolved)
    /\ [][ /\ mirrorPublished' # mirrorPublished =>
                /\ Len(updates') = Len(updates) + 1
                /\ Len(mirrorPublished') = Len(mirrorPublished) + 1
                /\ SubSeq(mirrorPublished', 1, Len(mirrorPublished)) = mirrorPublished
                /\ handlers' = handlers
           /\ handlers' # handlers => mirrorPublished' = mirrorPublished
         ]_vars

\* One request refused on the response topic and one update mirrored on the
\* broadcast topic.
C20_Witness ==
    /\ Len(handlers) = 1
    /\ handlers[1].published =
           << [topic |-> "seatadjuster/setPosition/response",
               payload |-> "{\"requestId\":7,\"result\":{\"message\":\"Not allowed to move seat because vehicle speed is 15 and not 0\",\"status\":1}}"] >>
    /\ mirrorPublished =
           << [topic |-> "seatadjuster/currentPosition", payload |-> "{\"position\":42}"] >>

====
